---- MODULE Spec2Model ----
(***************************************************************************)
(* Model of superset/examples/sf_population_polygons.py:                   *)
(* load_sf_population_polygons(only_metadata, force).                      *)
(*                                                                         *)
(* The state is the physical table sf_population_polygons of the example   *)
(* database, the dataset records of the metadata session, the document     *)
(* behind the example URL, and for every caller the position in the        *)
(* function together with its locals.                                      *)
(***************************************************************************)
EXTENDS Integers, Sequences, FiniteSets, TLC

\* ---- bounds ----
\* number of distinct documents the example URL may serve over time
NumVersions == 2
\* number of rows of the document
NRows == 4
\* rows per INSERT batch (line 48 passes chunksize=500; scaled so that a
\* document of NRows rows needs more than one batch)
chunksize == 2

Versions == 1..NumVersions

\* callers; Main is the only caller of the sequential specification
Main == "a"
Procs == {"a", "b"}

VARIABLES remote, table, records,
          pc, only_metadata, force, table_exists, raw, df, written, txn,
          tbl, err, at, log, fetches, pre, prev, fresh

locals == <<only_metadata, force, table_exists, raw, df, written, txn, tbl,
            err, at, log, fetches, pre>>
vars == <<remote, table, records, pc, only_metadata, force, table_exists,
          raw, df, written, txn, tbl, err, at, log, fetches, pre, prev,
          fresh>>

\* ---- values ----
tbl_name == "sf_population_polygons"
schema == "main"
ExampleDatabase == "examples"
Description == "Population density of San Francisco"

\* the column order of the document's records
Columns == <<"zipcode", "population", "contour", "area">>

\* the dtype argument of to_sql
dtype(c) ==
    CASE c = "zipcode" -> "BigInteger"
      [] c = "population" -> "BigInteger"
      [] c = "contour" -> "Text"
      [] c = "area" -> "Float"

\* one record of the document; contour is a nested list (a polygon)
Row(v, i) ==
    [zipcode |-> 94100 + i, population |-> 100 * v + i,
     contour |-> <<<<v, i>>, <<i, v>>>>, area |-> 10 * v + i]

\* pd.read_json of document version v
Payload(v) == [i \in 1..NRows |-> Row(v, i)]

\* json.dumps of a list of integers / of a list of such lists
RECURSIVE JoinInts(_)
JoinInts(s) ==
    IF Len(s) = 0 THEN ""
    ELSE IF Len(s) = 1 THEN ToString(s[1])
    ELSE ToString(s[1]) \o ", " \o JoinInts(Tail(s))

RECURSIVE JoinLists(_)
JoinLists(s) ==
    IF Len(s) = 0 THEN ""
    ELSE IF Len(s) = 1 THEN "[" \o JoinInts(s[1]) \o "]"
    ELSE "[" \o JoinInts(s[1]) \o "], " \o JoinLists(Tail(s))

json_dumps(c) == "[" \o JoinLists(c) \o "]"

\* df["contour"] = df.contour.map(json.dumps)
MapContour(d) == [i \in 1..Len(d) |-> [d[i] EXCEPT !.contour = json_dumps(@)]]

AbsentTable == [exists |-> FALSE, cols |-> <<>>, rows |-> <<>>]

\* the table CREATE TABLE makes for the frame: the frame's columns, typed
EmptyTable ==
    [exists |-> TRUE,
     cols |-> [i \in 1..Len(Columns) |-> [name |-> Columns[i], type |-> dtype(Columns[i])]],
     rows |-> <<>>]

Min(a, b) == IF a < b THEN a ELSE b

\* guard variants: force binding looser than only_metadata; the table's
\* existence not consulted; force not consulted
ShouldLoad_ForceWins(om, te, f) == (~om /\ ~te) \/ f

ShouldLoad_IgnoresExists(om, te, f) == ~om

ShouldLoad_IgnoresForce(om, te, f) == ~om /\ ~te

\* the guard of the data-loading block
ShouldLoad(om, te, f) == ~om /\ (~te \/ f)

\* query(table).filter_by(table_name=tbl_name).first(): index, 0 for None
RECURSIVE FirstMatch(_, _)
FirstMatch(rs, i) ==
    IF i > Len(rs) THEN 0
    ELSE IF rs[i].table_name = tbl_name THEN i
    ELSE FirstMatch(rs, i + 1)

\* table(table_name=tbl_name, schema=schema)
NewRecord ==
    [table_name |-> tbl_name, schema |-> schema, description |-> "",
     database |-> "", filter_select_enabled |-> FALSE, columns |-> <<>>]

\* SqlaTable.fetch_metadata: the column list read from the live table
fetch_metadata(t) == [i \in 1..Len(t.cols) |-> t.cols[i]]

NoPrev ==
    [valid |-> FALSE, only_metadata |-> FALSE, force |-> FALSE,
     table |-> AbsentTable, records |-> <<>>]

\* ---- initial state: a fresh database, nobody calling ----
Init ==
    /\ remote \in Versions
    /\ table = AbsentTable
    /\ records = <<>>
    /\ pc = [p \in Procs |-> "idle"]
    /\ only_metadata = [p \in Procs |-> FALSE]
    /\ force = [p \in Procs |-> FALSE]
    /\ table_exists = [p \in Procs |-> FALSE]
    /\ raw = [p \in Procs |-> 0]
    /\ df = [p \in Procs |-> <<>>]
    /\ written = [p \in Procs |-> 0]
    /\ txn = [p \in Procs |-> AbsentTable]
    /\ tbl = [p \in Procs |-> 0]
    /\ err = [p \in Procs |-> "none"]
    /\ at = [p \in Procs |-> "none"]
    /\ log = [p \in Procs |-> 0]
    /\ fetches = [p \in Procs |-> 0]
    /\ pre = [p \in Procs |-> [table |-> AbsentTable, records |-> <<>>, republished |-> FALSE]]
    /\ prev = NoPrev
    /\ fresh = TRUE

\* ---- the function, step by step ----

\* entry: tbl_name, database
Call(p, om, f) ==
    /\ pc[p] = "idle"
    /\ pc' = [pc EXCEPT ![p] = "has_table"]
    /\ only_metadata' = [only_metadata EXCEPT ![p] = om]
    /\ force' = [force EXCEPT ![p] = f]
    /\ table_exists' = [table_exists EXCEPT ![p] = FALSE]
    /\ raw' = [raw EXCEPT ![p] = 0]
    /\ df' = [df EXCEPT ![p] = <<>>]
    /\ written' = [written EXCEPT ![p] = 0]
    /\ txn' = [txn EXCEPT ![p] = AbsentTable]
    /\ tbl' = [tbl EXCEPT ![p] = 0]
    /\ err' = [err EXCEPT ![p] = "none"]
    /\ at' = [at EXCEPT ![p] = "none"]
    /\ log' = [log EXCEPT ![p] = 0]
    /\ fetches' = [fetches EXCEPT ![p] = 0]
    /\ pre' = [pre EXCEPT ![p] = [table |-> table, records |-> records,
                                  republished |-> FALSE]]
    /\ UNCHANGED <<remote, table, records, prev, fresh>>

\* a call made while no other call is running
CallSeq(om, f) ==
    /\ \A q \in Procs : pc[q] = "idle"
    /\ Call(Main, om, f)

\* a call made while no call has returned yet: the callers' calls overlap
CallConc(p, om, f) ==
    /\ fresh
    /\ Call(p, om, f)

\* table_exists = database.has_table(...), then the guard
HasTable(p) ==
    /\ pc[p] = "has_table"
    /\ table_exists' = [table_exists EXCEPT ![p] = table.exists]
    /\ pc' = [pc EXCEPT ![p] =
                IF ShouldLoad(only_metadata[p], table.exists, force[p])
                THEN "read_json" ELSE "print"]
    /\ UNCHANGED <<remote, table, records, only_metadata, force, raw, df,
                   written, txn, tbl, err, at, log, fetches, pre, prev, fresh>>

\* variant: the old table is dropped before the document is downloaded
ReadJson_DropFirst(p) ==
    /\ pc[p] = "read_json"
    /\ fetches' = [fetches EXCEPT ![p] = @ + 1]
    /\ table' = AbsentTable
    /\ \/ /\ raw' = [raw EXCEPT ![p] = remote]
          /\ df' = [df EXCEPT ![p] = Payload(remote)]
          /\ pc' = [pc EXCEPT ![p] = "dumps"]
          /\ UNCHANGED <<err, at>>
       \/ /\ \E e \in {"fetch", "parse"} : err' = [err EXCEPT ![p] = e]
          /\ at' = [at EXCEPT ![p] = pc[p]]
          /\ pc' = [pc EXCEPT ![p] = "raised"]
          /\ UNCHANGED <<raw, df>>
    /\ UNCHANGED <<remote, records, only_metadata, force,
                   table_exists, written, txn, tbl, log, pre, prev, fresh>>

\* url = get_example_url(...); df = pd.read_json(url, compression="gzip")
ReadJson(p) ==
    /\ pc[p] = "read_json"
    /\ fetches' = [fetches EXCEPT ![p] = @ + 1]
    /\ \/ /\ raw' = [raw EXCEPT ![p] = remote]
          /\ df' = [df EXCEPT ![p] = Payload(remote)]
          /\ pc' = [pc EXCEPT ![p] = "dumps"]
          /\ UNCHANGED <<err, at>>
       \/ /\ \E e \in {"fetch", "parse"} : err' = [err EXCEPT ![p] = e]
          /\ at' = [at EXCEPT ![p] = pc[p]]
          /\ pc' = [pc EXCEPT ![p] = "raised"]
          /\ UNCHANGED <<raw, df>>
    /\ UNCHANGED <<remote, table, records, only_metadata, force,
                   table_exists, written, txn, tbl, log, pre, prev, fresh>>

\* df["contour"] = df.contour.map(json.dumps)
DumpContour(p) ==
    /\ pc[p] = "dumps"
    /\ df' = [df EXCEPT ![p] = MapContour(@)]
    /\ pc' = [pc EXCEPT ![p] = "to_sql"]
    /\ UNCHANGED <<remote, table, records, only_metadata, force,
                   table_exists, raw, written, txn, tbl, err, at, log, fetches,
                   pre, prev, fresh>>

\* variant: if_exists="append", the rows already there are kept
ToSqlReplace_Append(p) ==
    /\ pc[p] = "to_sql"
    /\ txn' = [txn EXCEPT ![p] = table]
    /\ table' = [EmptyTable EXCEPT !.rows = table.rows]
    /\ written' = [written EXCEPT ![p] = 0]
    /\ pc' = [pc EXCEPT ![p] = "insert"]
    /\ UNCHANGED <<remote, records, only_metadata, force, table_exists, raw,
                   df, tbl, err, at, log, fetches, pre, prev, fresh>>

\* df.to_sql(..., if_exists="replace"): drop the table if there, create it
ToSqlReplace(p) ==
    /\ pc[p] = "to_sql"
    /\ txn' = [txn EXCEPT ![p] = table]
    /\ table' = EmptyTable
    /\ written' = [written EXCEPT ![p] = 0]
    /\ pc' = [pc EXCEPT ![p] = "insert"]
    /\ UNCHANGED <<remote, records, only_metadata, force, table_exists, raw,
                   df, tbl, err, at, log, fetches, pre, prev, fresh>>

\* df.to_sql(..., chunksize=...): insert the next batch; the write is
\* complete with the last batch
ToSqlInsert(p) ==
    /\ pc[p] = "insert"
    /\ written[p] < Len(df[p])
    /\ LET upto == Min(written[p] + chunksize, Len(df[p])) IN
       /\ table' = [table EXCEPT !.rows = @ \o SubSeq(df[p], written[p] + 1, upto)]
       /\ written' = [written EXCEPT ![p] = upto]
       /\ pc' = [pc EXCEPT ![p] = IF upto = Len(df[p]) THEN "print" ELSE "insert"]
    /\ UNCHANGED <<remote, records, only_metadata, force, table_exists, raw,
                   df, txn, tbl, err, at, log, fetches, pre, prev, fresh>>

\* df.to_sql raises: nothing here catches it; whether the statements already
\* executed are undone is up to the database behind the engine
ToSqlFail(p) ==
    /\ pc[p] \in {"to_sql", "insert"}
    /\ \/ table' = table
       \/ pc[p] = "insert" /\ table' = txn[p]
    /\ err' = [err EXCEPT ![p] = "write"]
    /\ at' = [at EXCEPT ![p] = pc[p]]
    /\ pc' = [pc EXCEPT ![p] = "raised"]
    /\ UNCHANGED <<remote, records, only_metadata, force, table_exists, raw,
                   df, written, txn, tbl, log, fetches, pre, prev, fresh>>

\* variant: the line is emitted on entering the metadata step and again
\* by the statement itself
PrintReference_Twice(p) ==
    /\ pc[p] = "print"
    /\ log' = [log EXCEPT ![p] = @ + 2]
    /\ pc' = [pc EXCEPT ![p] = "query"]
    /\ UNCHANGED <<remote, table, records, only_metadata, force,
                   table_exists, raw, df, written, txn, tbl, err, at, fetches,
                   pre, prev, fresh>>

\* print(f"Creating table {tbl_name} reference")
PrintReference(p) ==
    /\ pc[p] = "print"
    /\ log' = [log EXCEPT ![p] = @ + 1]
    /\ pc' = [pc EXCEPT ![p] = "query"]
    /\ UNCHANGED <<remote, table, records, only_metadata, force,
                   table_exists, raw, df, written, txn, tbl, err, at, fetches,
                   pre, prev, fresh>>

\* tbl = db.session.query(table).filter_by(table_name=tbl_name).first()
Query(p) ==
    /\ pc[p] = "query"
    /\ tbl' = [tbl EXCEPT ![p] = FirstMatch(records, 1)]
    /\ pc' = [pc EXCEPT ![p] = "add"]
    /\ UNCHANGED <<remote, table, records, only_metadata, force,
                   table_exists, raw, df, written, txn, err, at, log, fetches,
                   pre, prev, fresh>>

\* variant: a record is added whatever the lookup returned
AddIfMissing_Always(p) ==
    /\ pc[p] = "add"
    /\ records' = Append(records, NewRecord)
    /\ tbl' = [tbl EXCEPT ![p] = Len(records) + 1]
    /\ pc' = [pc EXCEPT ![p] = "attrs"]
    /\ UNCHANGED <<remote, table, only_metadata, force, table_exists, raw,
                   df, written, txn, err, at, log, fetches, pre, prev, fresh>>

\* variant: lookup and insert as one conditional operation on the records
AddIfMissing_Upsert(p) ==
    /\ pc[p] = "add"
    /\ IF FirstMatch(records, 1) = 0
       THEN /\ records' = Append(records, NewRecord)
            /\ tbl' = [tbl EXCEPT ![p] = Len(records) + 1]
       ELSE /\ records' = records
            /\ tbl' = [tbl EXCEPT ![p] = FirstMatch(records, 1)]
    /\ pc' = [pc EXCEPT ![p] = "attrs"]
    /\ UNCHANGED <<remote, table, only_metadata, force, table_exists, raw,
                   df, written, txn, err, at, log, fetches, pre, prev, fresh>>

\* if not tbl: tbl = table(...); db.session.add(tbl)
AddIfMissing(p) ==
    /\ pc[p] = "add"
    /\ IF tbl[p] = 0
       THEN /\ records' = Append(records, NewRecord)
            /\ tbl' = [tbl EXCEPT ![p] = Len(records) + 1]
       ELSE UNCHANGED <<records, tbl>>
    /\ pc' = [pc EXCEPT ![p] = "attrs"]
    /\ UNCHANGED <<remote, table, only_metadata, force, table_exists, raw,
                   df, written, txn, err, at, log, fetches, pre, prev, fresh>>

\* variant: the filter flag is not set
SetAttrs_NoFilterFlag(p) ==
    /\ pc[p] = "attrs"
    /\ records' = [records EXCEPT ![tbl[p]] =
                     [@ EXCEPT !.description = Description,
                               !.database = ExampleDatabase]]
    /\ pc' = [pc EXCEPT ![p] = "fetch_metadata"]
    /\ UNCHANGED <<remote, table, only_metadata, force, table_exists, raw,
                   df, written, txn, tbl, err, at, log, fetches, pre, prev,
                   fresh>>

\* tbl.description = ...; tbl.database = database;
\* tbl.filter_select_enabled = True
SetAttrs(p) ==
    /\ pc[p] = "attrs"
    /\ records' = [records EXCEPT ![tbl[p]] =
                     [@ EXCEPT !.description = Description,
                               !.database = ExampleDatabase,
                               !.filter_select_enabled = TRUE]]
    /\ pc' = [pc EXCEPT ![p] = "fetch_metadata"]
    /\ UNCHANGED <<remote, table, only_metadata, force, table_exists, raw,
                   df, written, txn, tbl, err, at, log, fetches, pre, prev, fresh>>

\* tbl.fetch_metadata(): refresh the columns from the live table; with no
\* table to inspect the refresh may raise
FetchMetadata(p) ==
    /\ pc[p] = "fetch_metadata"
    /\ \/ /\ records' = [records EXCEPT ![tbl[p]] =
                           [@ EXCEPT !.columns = fetch_metadata(table)]]
          /\ pc' = [pc EXCEPT ![p] = "done"]
          /\ UNCHANGED <<err, at>>
       \/ /\ ~table.exists
          /\ err' = [err EXCEPT ![p] = "metadata"]
          /\ at' = [at EXCEPT ![p] = pc[p]]
          /\ pc' = [pc EXCEPT ![p] = "raised"]
          /\ records' = records
    /\ UNCHANGED <<remote, table, only_metadata, force, table_exists, raw,
                   df, written, txn, tbl, log, fetches, pre, prev, fresh>>

\* variant: the data write and the metadata write share one transaction,
\* which an interruption undoes
Interrupt_RollsBack(p) ==
    /\ pc[p] \in {"has_table", "read_json", "dumps", "print", "query", "add",
                  "attrs", "fetch_metadata"}
    /\ err' = [err EXCEPT ![p] = "interrupt"]
    /\ at' = [at EXCEPT ![p] = pc[p]]
    /\ pc' = [pc EXCEPT ![p] = "raised"]
    /\ table' = pre[p].table
    /\ records' = pre[p].records
    /\ UNCHANGED <<remote, only_metadata, force,
                   table_exists, raw, df, written, txn, tbl, log, fetches,
                   pre, prev, fresh>>

\* the caller is interrupted between two statements (outside to_sql)
Interrupt(p) ==
    /\ pc[p] \in {"has_table", "read_json", "dumps", "print", "query", "add",
                  "attrs", "fetch_metadata"}
    /\ err' = [err EXCEPT ![p] = "interrupt"]
    /\ at' = [at EXCEPT ![p] = pc[p]]
    /\ pc' = [pc EXCEPT ![p] = "raised"]
    /\ UNCHANGED <<remote, table, records, only_metadata, force,
                   table_exists, raw, df, written, txn, tbl, log, fetches,
                   pre, prev, fresh>>

\* the call returns, or its exception reaches the caller; the locals go
\* out of scope. prev keeps what a successful call left, for the next call
\* to be compared with, unless the document was replaced meanwhile
Return(p) ==
    /\ pc[p] \in {"done", "raised"}
    /\ pc' = [pc EXCEPT ![p] = "idle"]
    /\ prev' = IF /\ pc[p] = "done"
                  /\ ~pre[p].republished
                  /\ \A q \in Procs \ {p} : pc[q] = "idle"
               THEN [valid |-> TRUE, only_metadata |-> only_metadata[p],
                     force |-> force[p], table |-> table, records |-> records]
               ELSE NoPrev
    /\ fresh' = FALSE
    /\ only_metadata' = [only_metadata EXCEPT ![p] = FALSE]
    /\ force' = [force EXCEPT ![p] = FALSE]
    /\ table_exists' = [table_exists EXCEPT ![p] = FALSE]
    /\ raw' = [raw EXCEPT ![p] = 0]
    /\ df' = [df EXCEPT ![p] = <<>>]
    /\ written' = [written EXCEPT ![p] = 0]
    /\ txn' = [txn EXCEPT ![p] = AbsentTable]
    /\ tbl' = [tbl EXCEPT ![p] = 0]
    /\ err' = [err EXCEPT ![p] = "none"]
    /\ at' = [at EXCEPT ![p] = "none"]
    /\ log' = [log EXCEPT ![p] = 0]
    /\ fetches' = [fetches EXCEPT ![p] = 0]
    /\ pre' = [pre EXCEPT ![p] = [table |-> AbsentTable, records |-> <<>>, republished |-> FALSE]]
    /\ UNCHANGED <<remote, table, records>>

\* the document behind the example URL is replaced by another one
PublishPayload ==
    /\ \E v \in Versions \ {remote} : remote' = v
    /\ prev' = NoPrev
    /\ pre' = [p \in Procs |->
                 IF pc[p] = "idle" THEN pre[p]
                 ELSE [pre[p] EXCEPT !.republished = TRUE]]
    /\ UNCHANGED <<table, records, pc, only_metadata, force, table_exists,
                   raw, df, written, txn, tbl, err, at, log, fetches, fresh>>

Step(p) ==
    \/ HasTable(p)
    \/ ReadJson(p)
    \/ DumpContour(p)
    \/ ToSqlReplace(p)
    \/ ToSqlInsert(p)
    \/ ToSqlFail(p)
    \/ PrintReference(p)
    \/ Query(p)
    \/ AddIfMissing(p)
    \/ SetAttrs(p)
    \/ FetchMetadata(p)
    \/ Interrupt(p)
    \/ Return(p)

\* calls one after the other
Next ==
    \/ \E om \in BOOLEAN, f \in BOOLEAN : CallSeq(om, f)
    \/ \E p \in Procs : Step(p)
    \/ PublishPayload

Spec == Init /\ [][Next]_vars

\* two callers provisioning a fresh database at the same time
NextConc ==
    \/ \E p \in Procs, om \in BOOLEAN, f \in BOOLEAN : CallConc(p, om, f)
    \/ \E p \in Procs : Step(p)

SpecConc == Init /\ [][NextConc]_vars

\* ---- properties ----

\* the table the data-loading block leaves for document version v
LoadedTable(v) == [EmptyTable EXCEPT !.rows = MapContour(Payload(v))]

\* where a call is, or was when its exception was raised
Position(p) == IF pc[p] = "raised" THEN at[p] ELSE pc[p]

Matching == {i \in 1..Len(records) : records[i].table_name = tbl_name}

ColumnNames(cs) == [i \in 1..Len(cs) |-> cs[i].name]

\* C1: during and after a call with only_metadata=true, whatever force and
\* whether or not the table exists, the remote document has not been
\* fetched and the table is as it was before the call.
C1_OnlyMetadataLeavesData ==
    \A p \in Procs :
        pc[p] # "idle" /\ only_metadata[p] =>
            /\ fetches[p] = 0
            /\ table = pre[p].table

\* a finished call with only_metadata=true and force=true on an existing table
C1_Witness ==
    /\ pc[Main] = "done"
    /\ only_metadata[Main] /\ force[Main]
    /\ pre[Main].table.exists

\* C2: during and after a call with force=false that found the table
\* present, for either only_metadata, the remote document has not been
\* fetched and the table is as it was before the call.
C2_NoForcePresentLeavesData ==
    \A p \in Procs :
        pc[p] \notin {"idle", "has_table"} /\ ~force[p] /\ table_exists[p] =>
            /\ fetches[p] = 0
            /\ table = pre[p].table
            /\ raw[p] = 0

\* a finished call with force=false, only_metadata=false on an existing table
C2_Witness ==
    /\ pc[Main] = "done"
    /\ ~force[Main] /\ ~only_metadata[Main]
    /\ table_exists[Main]
    /\ table.exists

\* C3 as stated: after every call with force=true the table holds the
\* fetched document.
C3_ForceAlwaysReloads ==
    \A p \in Procs :
        pc[p] = "done" /\ force[p] =>
            /\ raw[p] # 0
            /\ table = LoadedTable(raw[p])

\* C3 amended: after every successful call with force=true and
\* only_metadata=false the table has been fetched once and holds exactly the
\* fetched document (contour serialised), whatever it held before.
C3_ForceReloadsUnlessOnlyMetadata ==
    \A p \in Procs :
        pc[p] = "done" /\ force[p] /\ ~only_metadata[p] =>
            /\ raw[p] # 0
            /\ fetches[p] = 1
            /\ table = LoadedTable(raw[p])

\* a forced reload over a table that held another document
C3_Witness ==
    /\ pc[Main] = "done"
    /\ force[Main] /\ ~only_metadata[Main]
    /\ pre[Main].table.exists
    /\ pre[Main].table # table

\* C4: after a successful call the record the call worked on is a record of
\* sf_population_polygons with the fixed description, the filter flag set,
\* the example database, and the columns of the table as it is now.
C4_RecordAfterCall ==
    \A p \in Procs :
        pc[p] = "done" =>
            /\ tbl[p] \in 1..Len(records)
            /\ records[tbl[p]].table_name = tbl_name
            /\ records[tbl[p]].description = Description
            /\ records[tbl[p]].filter_select_enabled
            /\ records[tbl[p]].database = ExampleDatabase
            /\ records[tbl[p]].columns = table.cols

\* a call that wrote the table and then refreshed a record that had other
\* columns before
C4_Witness ==
    /\ pc[Main] = "done"
    /\ raw[Main] # 0
    /\ ~pre[Main].table.exists
    /\ Len(pre[Main].records) = 1
    /\ pre[Main].records[1].columns # records[1].columns
    /\ Len(records[tbl[Main]].columns) = Len(Columns)

C5_AtMostOne == Cardinality(Matching) <= 1

C5_Scenario ==
    pc[Main] = "done" /\ fresh /\ ~only_metadata[Main] /\ ~force[Main] =>
        /\ Len(records) = 1
        /\ table.exists
        /\ ColumnNames(table.cols) = <<"zipcode", "population", "contour", "area">>

C5_Step ==
    /\ Len(records') >= Len(records)
    /\ \A i \in 1..Len(records) : records'[i].table_name = records[i].table_name
    /\ \A p \in Procs :
          pc[p] = "add" /\ pc'[p] = "attrs" =>
              IF tbl[p] = 0
              THEN Len(records') = Len(records) + 1 /\ tbl'[p] = Len(records')
              ELSE records' = records /\ tbl'[p] = tbl[p]
    /\ \A p \in Procs :
          pc[p] = "query" /\ pc'[p] = "add" /\ Matching # {} => tbl'[p] \in Matching

\* C5: with calls one after the other there is never more than one record
\* of sf_population_polygons; a call whose lookup found none adds exactly
\* one, a call whose lookup found one keeps working on that one, no step
\* removes a record; the first call on a fresh database with force=false,
\* only_metadata=false ends with one record and a table of the four columns.
C5_OneRecord == [](C5_AtMostOne /\ C5_Scenario) /\ [][C5_Step]_vars

\* the first call on a fresh database has finished
C5_Witness ==
    /\ pc[Main] = "done"
    /\ fresh /\ ~only_metadata[Main] /\ ~force[Main]
    /\ Len(records) = 1

\* C6: a successful call that follows a successful call with the same flags,
\* the remote document not replaced since, ends with the table and the
\* records (their number, description, filter flag, columns) exactly as the
\* first of the two left them.
C6_Idempotent ==
    \A p \in Procs :
        /\ pc[p] = "done"
        /\ prev.valid
        /\ prev.only_metadata = only_metadata[p]
        /\ prev.force = force[p]
        => /\ table = prev.table
           /\ records = prev.records

\* the second of two forced reloads has finished
C6_Witness ==
    /\ pc[Main] = "done"
    /\ prev.valid
    /\ prev.force /\ force[Main]
    /\ ~prev.only_metadata /\ ~only_metadata[Main]
    /\ raw[Main] # 0

Failed(p, kinds) == pc[p] = "raised" /\ err[p] \in kinds

\* SubSeq(d, 1, n) for some n below Len(d)
IsProperPrefix(r, d) == Len(r) < Len(d) /\ r = SubSeq(d, 1, Len(r))

\* C7 as stated: a call in which the fetch, the parse or the bulk write
\* failed leaves the table and the records as they were before the call.
C7_AllOrNothing ==
    \A p \in Procs :
        Failed(p, {"fetch", "parse", "write"}) =>
            /\ table = pre[p].table
            /\ records = pre[p].records

\* C7 amended: a failing fetch, parse or bulk write ends the call with the
\* fault, after one fetch attempt and before the log line and the metadata
\* step, so the records are as before; after a failing fetch or parse the
\* table is as before too; after a failing bulk write the table is either
\* as before or the new table with only the batches inserted so far.
C7_FailureLeaves ==
    \A p \in Procs :
        Failed(p, {"fetch", "parse", "write"}) =>
            /\ records = pre[p].records
            /\ fetches[p] = 1
            /\ log[p] = 0
            /\ tbl[p] = 0
            /\ err[p] \in {"fetch", "parse"} => table = pre[p].table
            /\ err[p] = "write" =>
                  \/ table = pre[p].table
                  \/ /\ table.exists
                     /\ table.cols = EmptyTable.cols
                     /\ IsProperPrefix(table.rows, df[p])

\* a bulk write failed over an existing table and left the new table half
\* written
C7_Witness ==
    /\ Failed(Main, {"write"})
    /\ pre[Main].table.exists
    /\ table # pre[Main].table
    /\ Len(table.rows) > 0

\* C8 as stated: every call that has ended, normally or not, has emitted the
\* log line exactly once.
C8_EveryCallLogs ==
    \A p \in Procs : pc[p] \in {"done", "raised"} => log[p] = 1

\* C8 amended: no call emits the line more than once; every call that got
\* past the data-loading block, whether the block ran or was skipped, has
\* emitted it exactly once, so every call that returns has; a call that
\* ended in the data-loading block has not emitted it.
C8_LogOncePastDataBlock ==
    \A p \in Procs :
        /\ log[p] <= 1
        /\ Position(p) \in {"query", "add", "attrs", "fetch_metadata", "done"}
              => log[p] = 1
        /\ Position(p) \in {"has_table", "read_json", "dumps", "to_sql",
                            "insert", "print"} => log[p] = 0

\* a call that skipped the data-loading block has returned with one line
C8_Witness ==
    /\ pc[Main] = "done"
    /\ only_metadata[Main] /\ force[Main]
    /\ log[Main] = 1

\* C9: up to and including the record lookup and insert decision the
\* records are as before the call, and from the end of the data write on,
\* also when the call is interrupted there, the table holds the fetched
\* document: the write comes first and is not undone.
C9_WriteThenMetadataUncoupled ==
    \A p \in Procs :
        pc[p] # "idle" =>
            /\ Position(p) \in {"has_table", "read_json", "dumps", "to_sql",
                                "insert", "print", "query", "add"}
                  => records = pre[p].records
            /\ Position(p) \in {"print", "query", "add", "attrs",
                                "fetch_metadata", "done"} /\ raw[p] # 0
                  => table = LoadedTable(raw[p])

\* a call interrupted between the data write and the metadata upsert
C9_Witness ==
    /\ Failed(Main, {"interrupt"})
    /\ at[Main] \in {"print", "query", "add"}
    /\ raw[Main] # 0
    /\ table = LoadedTable(raw[Main])
    /\ table # pre[Main].table
    /\ records = pre[Main].records

C10_Step ==
    \A p \in Procs :
        pc[p] = "add" /\ pc'[p] = "attrs" =>
            (Len(records') = Len(records) + 1 <=> tbl[p] = 0)

\* C10: with overlapping calls, the insert is decided by what the caller's
\* own earlier lookup returned, not by the records at the time of the
\* insert: a caller whose lookup returned none adds a record whatever has
\* been added since, so two callers that both looked before either added
\* leave two records of sf_population_polygons.
C10_ReadThenWrite == [][C10_Step]_vars

\* both callers have added a record
C10_Witness ==
    /\ Cardinality(Matching) = 2
    /\ \A p \in Procs : pc[p] = "done"

====
